---- MODULE Spec2Model ----
(***************************************************************************)
(* Model of app/modules/filemanager/storages/alist.py: the Alist storage   *)
(* adapter.  Four specifications share the module:                         *)
(*   SpecAuth  token acquisition, the process-wide TTL cache and the       *)
(*             Authorization header each request carries;                  *)
(*   SpecOps   every endpoint operation as a function of the HTTP          *)
(*             response the transport hands back;                          *)
(*   SpecFs    the operations that read the remote tree (list, get_item,   *)
(*             snapshot) against a remote file system;                     *)
(*   SpecFolder  the operations that make directories in it                *)
(*             (create_folder, get_folder with get_parent).                *)
(* Strings that the code concatenates or parses (paths) are sequences of   *)
(* tokens: the separator "/" and names; a Path is the parsed form.         *)
(***************************************************************************)
EXTENDS Integers, Sequences, FiniteSets, TLC

VARIABLES now, ticks, conf, cache, inst, lastLogin, prevLogin, evt, last, fs

authVars == <<now, ticks, conf, cache, inst, lastLogin, prevLogin, evt>>
vars == <<now, ticks, conf, cache, inst, lastLogin, prevLogin, evt, last, fs>>

(***************************************************************************)
(* Bounds of the model.                                                    *)
(***************************************************************************)
NInst == 2
MaxTicks == 2

(***************************************************************************)
(* HTTP responses.  post_res/get_res/put_res hand back either no response  *)
(* (ok = FALSE: the transport failed) or a response with a status code and *)
(* a body; json says whether the body parses, code and data are the        *)
(* envelope's fields.                                                      *)
(***************************************************************************)
NoResp == [ok |-> FALSE, status |-> 0, json |-> FALSE, code |-> 0, data |-> <<>>]

Response(status, json, code, data) ==
    [ok |-> TRUE, status |-> status, json |-> json,
     code |-> IF json THEN code ELSE 0, data |-> IF json THEN data ELSE <<>>]

\* requests.Response.__bool__ is Response.ok: the status is below 400
Truthy(resp) == resp.ok /\ resp.status < 400

(***************************************************************************)
(* Strings and paths.  A string that names a path is a sequence of tokens, *)
(* "/" or a name; "." is the string of the empty relative path.  A Path    *)
(* (pathlib.PurePosixPath) is its parsed form: the root ("", "/" or "//":  *)
(* exactly two leading slashes are kept) and the parts.                    *)
(***************************************************************************)
Names == {"a", "b"}
NameSeq == <<"a", "b">>

RECURSIVE LeadingSlashes(_)
LeadingSlashes(s) ==
    IF s # <<>> /\ Head(s) = "/" THEN 1 + LeadingSlashes(Tail(s)) ELSE 0

IsPart(t) == t # "/" /\ t # "."

\* Path(s)
PathOf(s) ==
    [root |-> LET n == LeadingSlashes(s) IN
              IF n = 0 THEN "" ELSE IF n = 2 THEN "//" ELSE "/",
     parts |-> SelectSeq(s, IsPart)]

RECURSIVE JoinParts(_)
JoinParts(parts) ==
    IF Len(parts) <= 1 THEN parts
    ELSE <<Head(parts), "/">> \o JoinParts(Tail(parts))

RootTokens(root) ==
    IF root = "" THEN <<>> ELSE IF root = "/" THEN <<"/">> ELSE <<"/", "/">>

\* Path.as_posix() and str(Path)
as_posix(p) ==
    IF p.root = "" /\ p.parts = <<>> THEN <<".">>
    ELSE RootTokens(p.root) \o JoinParts(p.parts)

\* Path.name: the final component, "" for a root or the empty path
PathName(p) == IF p.parts = <<>> THEN "" ELSE p.parts[Len(p.parts)]

\* Path.parent: a root or the empty path is its own parent
PathParent(p) ==
    IF p.parts = <<>> THEN p
    ELSE [root |-> p.root, parts |-> SubSeq(p.parts, 1, Len(p.parts) - 1)]

\* Path / name, for a name of one component ("" leaves the path as it is)
PathJoin(p, name) ==
    IF name = "" THEN p ELSE [root |-> p.root, parts |-> Append(p.parts, name)]

\* the tokens of a name: "" is the empty string
NameStr(name) == IF name = "" THEN <<>> ELSE <<name>>

\* schemas.FileItem(...): the fields the operations read.  A path given as
\* a Path is kept as its string.
FileItem(type, path, name, size) ==
    [type |-> type, path |-> path, name |-> name, size |-> size]

(***************************************************************************)
(* Authentication: lines 31-108.                                           *)
(***************************************************************************)
Inst == 1 .. NInst

\* TTLCache(maxsize=1, ttl=60 * 60 * 24 * 2 - 60 * 5)
TTL == 172500

\* get_conf().get("token"): "" when no permanent token is configured
StaticToken == "static"
ConfTokens == {"", StaticToken}

\* tokens the login endpoint hands out
GenTokens == {"t1", "t2"}

\* the login envelope's data: null (<<>>) or {"token": t} (<<t>>)
LoginData == {<<>>} \cup {<<t>> : t \in GenTokens}

LoginResponses ==
    {NoResp}
    \cup {Response(st, FALSE, 0, <<>>) : st \in {200, 500}}
    \cup {Response(st, TRUE, c, d) : st \in {200, 500}, c \in {200, 500}, d \in LoginData}

\* outcome of a token computation: the token returned, or the exception raised
TokReturn(t) == [exc |-> "none", val |-> t]
TokRaise(e) == [exc |-> e, val |-> ""]

\* the cache of __generate_token: maxsize=1, so at most one entry
EmptyCache == [key |-> 0, val |-> "", exp |-> 0]

\* TTLCache.__getitem__: an entry is live while timer() < expires
CacheHit(c, self, t) == c.key = self /\ t < c.exp

\* TTLCache.__setitem__: expires = timer() + ttl; with maxsize 1 the entry
\* of any other key is evicted
CacheStore(c, self, v, t) == [key |-> self, val |-> v, exp |-> t + TTL]

\* the body of __generate_token on the login response (lines 93-102)
generate_token(resp) ==
    IF ~resp.ok THEN TokRaise("AttributeError")          \* resp.status_code on None
    ELSE IF ~resp.json THEN TokRaise("JSONDecodeError")  \* resp.json()
    ELSE IF resp.data = <<>> THEN TokRaise("TypeError")  \* result["data"]["token"] on null
    ELSE TokReturn(resp.data[1])

\* @cached: a hit returns the cached value without a call; a miss calls the
\* function and stores what it returns (nothing is stored when it raises)
cached_generate_token(c, self, t, resp) ==
    IF CacheHit(c, self, t)
    THEN [out |-> TokReturn(c.val), cache |-> c, login |-> 0]
    ELSE LET o == generate_token(resp) IN
         [out |-> o,
          cache |-> IF o.exc = "none" THEN CacheStore(c, self, o.val, t) ELSE c,
          login |-> 1]

\* __get_valuable_toke (lines 51-61)
get_valuable_toke(cf, c, self, t, resp) ==
    IF cf # ""
    THEN [out |-> TokReturn(cf), cache |-> c, login |-> 0]
    ELSE cached_generate_token(c, self, t, resp)

\* what __get_valuable_toke holds for self at time t without a login:
\* the permanent token, the live cache entry, or "" when it would log in
TokenView(cf, c, self, t) ==
    IF cf # "" THEN cf ELSE IF CacheHit(c, self, t) THEN c.val ELSE ""

NoEvt == [kind |-> "none", self |-> 0, op |-> "", auth |-> "", view |-> "",
          login |-> 0, hit |-> FALSE, exc |-> "none", resp |-> NoResp]

\* the clock of the cache (time.monotonic) advances
Tick(d) ==
    /\ ticks < MaxTicks
    /\ ticks' = ticks + 1
    /\ now' = now + d
    /\ UNCHANGED <<conf, cache, inst, lastLogin, prevLogin, evt, last, fs>>

\* bookkeeping shared by the callers of __get_header_with_token
TokenCall(self, r, resp, kind, op) ==
    /\ cache' = r.cache
    /\ lastLogin' = IF r.login = 1 /\ r.out.exc = "none"
                    THEN [lastLogin EXCEPT ![self] = now] ELSE lastLogin
    /\ prevLogin' = IF r.login = 1 /\ r.out.exc = "none"
                    THEN [prevLogin EXCEPT ![self] = lastLogin[self]] ELSE prevLogin
    /\ evt' = [kind |-> IF r.out.exc = "none" THEN kind ELSE "raised",
               self |-> self, op |-> op, auth |-> r.out.val, view |-> TokenView(conf, r.cache, self, now),
               login |-> r.login, hit |-> CacheHit(cache, self, now),
               exc |-> r.out.exc,
               resp |-> IF r.login = 1 THEN resp ELSE NoResp]

\* __init__ (lines 31-33): self.req keeps the header computed here
Init__(self, resp) ==
    /\ inst[self].state = "new"
    /\ LET r == get_valuable_toke(conf, cache, self, now, resp) IN
       /\ TokenCall(self, r, resp, "init", "")
       /\ inst' = IF r.out.exc = "none"
                  THEN [inst EXCEPT ![self] = [state |-> "ready", hdr |-> r.out.val]]
                  ELSE inst
    /\ UNCHANGED <<now, ticks, conf, last, fs>>

\* the operations that send through self.req
ReqOps == {"list", "get_item", "create_folder", "delete", "rename", "copy",
           "move", "download"}

\* a request of list, get_item, ... : sent by self.req with its stored header
ReqRequest(self, op) ==
    /\ inst[self].state = "ready"
    /\ evt' = [kind |-> "request", self |-> self, op |-> op,
               auth |-> inst[self].hdr, view |-> TokenView(conf, cache, self, now),
               login |-> 0, hit |-> CacheHit(cache, self, now), exc |-> "none",
               resp |-> NoResp]
    /\ UNCHANGED <<now, ticks, conf, cache, inst, lastLogin, prevLogin, last, fs>>

\* upload's request (lines 511-520): headers from __get_header_with_token()
UploadRequest(self, resp) ==
    /\ inst[self].state = "ready"
    /\ LET r == get_valuable_toke(conf, cache, self, now, resp) IN
       TokenCall(self, r, resp, "request", "upload")
    /\ UNCHANGED <<now, ticks, conf, inst, last, fs>>

NextAuth ==
    \/ \E d \in {1, TTL - 1} : Tick(d)
    \/ \E i \in Inst, resp \in LoginResponses : Init__(i, resp)
    \/ \E i \in Inst, op \in ReqOps : ReqRequest(i, op)
    \/ \E i \in Inst, resp \in LoginResponses : UploadRequest(i, resp)

(***************************************************************************)
(* The operations as functions of the HTTP response(s): lines 116-665.     *)
(* A result is what the call returns (ret, val) or the exception it lets   *)
(* through (exc).                                                          *)
(***************************************************************************)
\* None where a FileItem is expected
NoneItem == FileItem("None", <<>>, "", 0)

\* ret says which of item (a FileItem), items (a list of FileItems), path (a
\* local path) and dict (path -> size, as a set of pairs) is returned
Out(exc, ret, item, items, path, dict) ==
    [exc |-> exc, ret |-> ret, item |-> item, items |-> items, path |-> path,
     dict |-> dict]

RetNone == Out("none", "None", NoneItem, <<>>, <<>>, {})
RetBool(b) == Out("none", IF b THEN "True" ELSE "False", NoneItem, <<>>, <<>>, {})
RetItem(item) == Out("none", "item", item, <<>>, <<>>, {})
RetList(items) == Out("none", "list", NoneItem, items, <<>>, {})
RetPath(path) == Out("none", "path", NoneItem, <<>>, path, {})
RetDict(d) == Out("none", "dict", NoneItem, <<>>, <<>>, d)
Raised(e) == Out(e, "raise", NoneItem, <<>>, <<>>, {})

\* a request handed to the transport: the method, the url (the API path
\* that __get_api_url joins to the base url, or the download url) and the
\* fields of the JSON body
Body(path, name, dir, names, src_dir, dst_dir) ==
    [path |-> path, name |-> name, dir |-> dir, names |-> names,
     src_dir |-> src_dir, dst_dir |-> dst_dir]
PathBody(path) == Body(path, "", <<>>, <<>>, <<>>, <<>>)
NoBody == PathBody(<<>>)

Call(method, url, body) == [method |-> method, url |-> url, body |-> body]

\* an entry of data / data.content
Entry(name, is_dir, size, sign) ==
    [name |-> name, is_dir |-> is_dir, size |-> size, sign |-> sign]

ItemType(entry) == IF entry.is_dir THEN "dir" ELSE "file"

\* list (lines 132-205); resp.data is data.content
list_call(fileitem) == Call("POST", <<"/api/fs/list">>, PathBody(fileitem.path))

\* a list that answers a failed request with an empty list
list_empty_on_failure(fileitem, resp) ==
    IF ~resp.ok THEN Raised("AttributeError")
    ELSE IF resp.status # 200 \/ ~resp.json \/ resp.code # 200 THEN RetList(<<>>)
    ELSE RetList([k \in 1 .. Len(resp.data) |->
                    FileItem(ItemType(resp.data[k]),
                             fileitem.path \o <<"/">> \o NameStr(resp.data[k].name),
                             resp.data[k].name, resp.data[k].size)])

list(fileitem, resp) ==
    IF ~resp.ok THEN Raised("AttributeError")            \* resp.status_code on None
    ELSE IF resp.status # 200 THEN RetNone
    ELSE IF ~resp.json THEN Raised("JSONDecodeError")
    ELSE IF resp.code # 200 THEN RetNone
    ELSE RetList([k \in 1 .. Len(resp.data) |->
                    FileItem(ItemType(resp.data[k]),
                             fileitem.path \o <<"/">> \o NameStr(resp.data[k].name),
                             resp.data[k].name, resp.data[k].size)])

\* get_item (lines 274-337); resp.data is <<entry>>
get_item_call(path) == Call("POST", <<"/api/fs/get">>, PathBody(as_posix(path)))

\* a get_item that takes every entry for a file
get_item_as_file(path, resp) ==
    IF ~resp.ok \/ resp.status # 200 \/ ~resp.json \/ resp.code # 200 THEN RetNone
    ELSE RetItem(FileItem("file", as_posix(path), resp.data[1].name, resp.data[1].size))

get_item(path, resp) ==
    IF ~resp.ok THEN RetNone
    ELSE IF resp.status # 200 THEN RetNone
    ELSE IF ~resp.json THEN Raised("JSONDecodeError")
    ELSE IF resp.code # 200 THEN RetNone
    ELSE RetItem(FileItem(ItemType(resp.data[1]), as_posix(path),
                          resp.data[1].name, resp.data[1].size))

\* create_folder (lines 213-241): the path made and what the mkdir response
\* decides; TRUE means "go on to get_item(path)"
create_folder_path(fileitem, name) == PathJoin(PathOf(fileitem.path), name)

create_folder_call(fileitem, name) ==
    Call("POST", <<"/api/fs/mkdir">>, PathBody(as_posix(create_folder_path(fileitem, name))))

create_folder_made(resp) ==
    IF ~resp.ok THEN RetNone
    ELSE IF resp.status # 200 THEN RetNone
    ELSE IF ~resp.json THEN Raised("JSONDecodeError")
    ELSE IF resp.code # 200 THEN RetNone
    ELSE RetBool(TRUE)

create_folder(fileitem, name, resp, resp2) ==
    LET made == create_folder_made(resp) IN
    IF made.ret = "True" THEN get_item(create_folder_path(fileitem, name), resp2)
    ELSE made

\* delete (lines 349-385)
delete_call(fileitem) ==
    Call("POST", <<"/api/fs/delete">>,
         Body(<<>>, "", as_posix(PathParent(PathOf(fileitem.path))), <<fileitem.name>>,
              <<>>, <<>>))

delete(fileitem, resp) ==
    IF ~resp.ok THEN RetBool(FALSE)
    ELSE IF resp.status # 200 THEN RetBool(FALSE)
    ELSE IF ~resp.json THEN Raised("JSONDecodeError")
    ELSE IF resp.code # 200 THEN RetBool(FALSE)
    ELSE RetBool(TRUE)

\* rename (lines 391-426)
rename_call(fileitem, name) ==
    Call("POST", <<"/api/fs/rename">>, Body(fileitem.path, name, <<>>, <<>>, <<>>, <<>>))

rename(fileitem, name, resp) ==
    IF ~Truthy(resp) THEN RetBool(FALSE)
    ELSE IF resp.status # 200 THEN RetBool(FALSE)
    ELSE IF ~resp.json THEN Raised("JSONDecodeError")
    ELSE IF resp.code # 200 THEN RetBool(FALSE)
    ELSE RetBool(TRUE)

\* download (lines 442-500): the metadata POST, then the GET of the url
download_call(fileitem) == Call("POST", <<"/api/fs/get">>, PathBody(fileitem.path))

download_url(fileitem, raw_url, entry) ==
    IF raw_url THEN <<"raw_url">>
    ELSE <<"/d">> \o fileitem.path
         \o (IF entry.sign # "" THEN <<"?sign=", entry.sign>> ELSE <<>>)

download_meta(resp) ==
    IF ~Truthy(resp) THEN RetNone
    ELSE IF resp.status # 200 THEN RetNone
    ELSE IF ~resp.json THEN Raised("JSONDecodeError")
    ELSE IF resp.code # 200 THEN RetNone
    ELSE RetBool(TRUE)

\* the local file is written whenever the GET hands back a response
download(fileitem, path, raw_url, resp, resp2) ==
    LET meta == download_meta(resp) IN
    IF meta.ret # "True" THEN meta
    ELSE IF ~resp2.ok THEN Raised("AttributeError")      \* resp.content on None
    ELSE RetPath(path)

download_calls(fileitem, raw_url, resp) ==
    IF download_meta(resp).ret = "True"
    THEN <<download_call(fileitem),
           Call("GET", download_url(fileitem, raw_url, resp.data[1]), NoBody)>>
    ELSE <<download_call(fileitem)>>

\* upload (lines 511-526): the envelope of the response is not read
\* the File-Path header names the destination
upload_call(fileitem) == Call("PUT", <<"/api/fs/form">>, PathBody(fileitem.path))

upload(fileitem, resp) ==
    IF ~resp.ok THEN Raised("AttributeError")            \* resp.status_code on None
    ELSE IF resp.status # 200 THEN RetNone
    ELSE RetItem(fileitem)

\* the target of copy and move: a FileItem (kind "item") or a Path
TargetItem(item) == [kind |-> "item", path |-> PathOf(item.path), item |-> item]
TargetPath(path) == [kind |-> "path", path |-> path, item |-> NoneItem]

\* __get_copy_and_move_data without the comparison of the names
get_copy_and_move_data_unchecked(fileitem, target) ==
    [src_dir |-> as_posix(PathParent(PathOf(fileitem.path))),
     dst_dir |-> as_posix(PathParent(target.path)),
     names |-> <<PathName(target.path)>>, is_valid |-> TRUE]

\* __get_copy_and_move_data (lines 545-555)
get_copy_and_move_data(fileitem, target) ==
    LET name == PathName(target.path) IN
    IF fileitem.name # name
    THEN [src_dir |-> <<>>, dst_dir |-> <<>>, names |-> <<>>, is_valid |-> FALSE]
    ELSE [src_dir |-> as_posix(PathParent(PathOf(fileitem.path))),
          dst_dir |-> IF target.kind = "item"
                      THEN as_posix(PathParent(PathOf(target.item.path)))
                      ELSE as_posix(PathParent(target.path)),
          names |-> <<name>>, is_valid |-> TRUE]

copy_move_response(resp) ==
    IF ~resp.ok THEN RetBool(FALSE)
    ELSE IF resp.status # 200 THEN RetBool(FALSE)
    ELSE IF ~resp.json THEN Raised("JSONDecodeError")
    ELSE IF resp.code # 200 THEN RetBool(FALSE)
    ELSE RetBool(TRUE)

copy_move_calls(api, fileitem, target) ==
    LET d == get_copy_and_move_data(fileitem, target) IN
    IF ~d.is_valid THEN <<>>
    ELSE <<Call("POST", <<api>>, Body(<<>>, "", <<>>, d.names, d.src_dir, d.dst_dir))>>

\* copy (lines 565-611)
copy(fileitem, target, resp) ==
    IF ~get_copy_and_move_data(fileitem, target).is_valid THEN RetBool(FALSE)
    ELSE copy_move_response(resp)

\* move (lines 619-665)
move(fileitem, target, resp) ==
    IF ~get_copy_and_move_data(fileitem, target).is_valid THEN RetBool(FALSE)
    ELSE copy_move_response(resp)

(***************************************************************************)
(* SpecOps: each operation applied to an item and to the response(s) the   *)
(* transport hands back.  last records the call: the operation, its        *)
(* arguments, the responses received, the requests sent and the result.    *)
(***************************************************************************)
NoPath == PathOf(<<>>)
NoTarget == TargetPath(NoPath)

\* the arguments besides the item: a name, raw_url, a target
Arg(name, raw_url, target) == [name |-> name, raw_url |-> raw_url, target |-> target]
NoArg == Arg("", FALSE, NoTarget)

NoLast == [op |-> "none", item |-> NoneItem, arg |-> NoArg, resps |-> <<>>,
           calls |-> <<>>, out |-> RetNone, pre |-> FALSE]

Done(op, item, arg, resps, calls, out) ==
    [op |-> op, item |-> item, arg |-> arg, resps |-> resps, calls |-> calls,
     out |-> out, pre |-> FALSE]

\* the responses of an endpoint whose success envelope carries one of datas
Responses(datas) ==
    {NoResp}
    \cup {Response(st, FALSE, 0, <<>>) : st \in {200, 500}}
    \cup {Response(st, TRUE, 200, d) : st \in {200, 500}, d \in datas}
    \cup {Response(st, TRUE, 500, <<>>) : st \in {200, 500}}

FileEntry == Entry("b", FALSE, 10, "")
SignedEntry == Entry("b", FALSE, 10, "sg")
DirEntry == Entry("a", TRUE, 0, "")

ListResponses == Responses({<<>>, <<FileEntry>>, <<DirEntry, FileEntry>>})
GetResponses == Responses({<<FileEntry>>, <<SignedEntry>>, <<DirEntry>>})
NullResponses == Responses({<<>>})
\* the GET of a download url hands back bytes, no envelope
ContentResponses == {NoResp, Response(200, FALSE, 0, <<>>)}

RootItem == FileItem("dir", <<"/">>, "", 0)
DirItem == FileItem("dir", <<"/", "a">>, "a", 0)
FileItemB == FileItem("file", <<"/", "a", "/", "b">>, "b", 10)
OpItems == {RootItem, DirItem, FileItemB}

Targets ==
    {TargetPath(PathOf(s)) : s \in {<<"/", "b", "/", "b">>, <<"/", "b", "/", "a">>,
                                     <<"/", "b">>, <<"/">>}}
    \cup {TargetItem(i) : i \in {FileItem("file", <<"/", "b", "/", "b">>, "b", 10),
                                  FileItem("dir", <<"/", "b", "/", "a">>, "a", 0)}}

LocalPath == <<"/", "tmp", "/", "f">>

List(item, resp) ==
    /\ UNCHANGED <<authVars, fs>>
    /\ last' = Done("list", item, NoArg, <<resp>>, <<list_call(item)>>, list(item, resp))

GetItem(item, resp) ==
    /\ UNCHANGED <<authVars, fs>>
    /\ last' = Done("get_item", item, NoArg, <<resp>>,
                 <<get_item_call(PathOf(item.path))>>, get_item(PathOf(item.path), resp))

CreateFolder(item, name, resp, resp2) ==
    LET made == create_folder_made(resp).ret = "True" IN
    /\ UNCHANGED <<authVars, fs>>
    /\ last' = Done("create_folder", item, Arg(name, FALSE, NoTarget),
                 IF made THEN <<resp, resp2>> ELSE <<resp>>,
                 IF made THEN <<create_folder_call(item, name),
                                get_item_call(create_folder_path(item, name))>>
                 ELSE <<create_folder_call(item, name)>>,
                 create_folder(item, name, resp, resp2))

Delete(item, resp) ==
    /\ UNCHANGED <<authVars, fs>>
    /\ last' = Done("delete", item, NoArg, <<resp>>, <<delete_call(item)>>, delete(item, resp))

Rename(item, name, resp) ==
    /\ UNCHANGED <<authVars, fs>>
    /\ last' = Done("rename", item, Arg(name, FALSE, NoTarget), <<resp>>, <<rename_call(item, name)>>,
                 rename(item, name, resp))

Download(item, raw_url, resp, resp2) ==
    LET meta == download_meta(resp).ret = "True" IN
    /\ UNCHANGED <<authVars, fs>>
    /\ last' = Done("download", item, Arg("", raw_url, NoTarget),
                 IF meta THEN <<resp, resp2>> ELSE <<resp>>,
                 download_calls(item, raw_url, resp),
                 download(item, LocalPath, raw_url, resp, resp2))

Upload(item, resp) ==
    /\ UNCHANGED <<authVars, fs>>
    /\ last' = Done("upload", item, NoArg, <<resp>>, <<upload_call(item)>>, upload(item, resp))

Copy(item, target, resp) ==
    LET calls == copy_move_calls("/api/fs/copy", item, target) IN
    /\ UNCHANGED <<authVars, fs>>
    /\ last' = Done("copy", item, Arg("", FALSE, target), IF calls = <<>> THEN <<>> ELSE <<resp>>,
                 calls, copy(item, target, resp))

Move(item, target, resp) ==
    LET calls == copy_move_calls("/api/fs/move", item, target) IN
    /\ UNCHANGED <<authVars, fs>>
    /\ last' = Done("move", item, Arg("", FALSE, target), IF calls = <<>> THEN <<>> ELSE <<resp>>,
                 calls, move(item, target, resp))

NextOps ==
    \/ \E item \in OpItems, resp \in ListResponses : List(item, resp)
    \/ \E item \in OpItems, resp \in GetResponses : GetItem(item, resp)
    \/ \E item \in OpItems, name \in Names, resp \in NullResponses,
          resp2 \in GetResponses : CreateFolder(item, name, resp, resp2)
    \/ \E item \in OpItems, resp \in NullResponses : Delete(item, resp)
    \/ \E item \in OpItems, name \in Names, resp \in NullResponses :
          Rename(item, name, resp)
    \/ \E item \in OpItems, raw_url \in BOOLEAN, resp \in GetResponses,
          resp2 \in ContentResponses : Download(item, raw_url, resp, resp2)
    \/ \E item \in OpItems, resp \in NullResponses : Upload(item, resp)
    \/ \E item \in OpItems, target \in Targets, resp \in NullResponses :
          Copy(item, target, resp)
    \/ \E item \in OpItems, target \in Targets, resp \in NullResponses :
          Move(item, target, resp)

(***************************************************************************)
(* The remote service.  fs maps every node of the remote tree (the         *)
(* sequence of names from the root, <<>> for the root) to what it is; the  *)
(* service resolves a path string by its names.  The transport answers the *)
(* k-th request of an operation as the plan says: with the service's       *)
(* answer, or with no response, a status 500 or an envelope of code 500.   *)
(***************************************************************************)
MaxCall == 3
RecursionLimit == 5

Node(is_dir, size) == [is_dir |-> is_dir, size |-> size]

\* the nodes of the remote trees: /a, /b and what /a holds
Nodes == {<<n>> : n \in Names} \cup {<<"a", n>> : n \in Names}

NodeParent(node) == SubSeq(node, 1, Len(node) - 1)

\* the size a file of the remote trees has, by its depth
FileSize(node) == 10 * Len(node)

\* a tree: the root, and under every directory any files and directories
IsTree(f) ==
    /\ <<>> \in DOMAIN f /\ f[<<>>].is_dir
    /\ \A node \in DOMAIN f \ {<<>>} :
          NodeParent(node) \in DOMAIN f /\ f[NodeParent(node)].is_dir

Trees ==
    {f \in UNION {[D \cup {<<>>} -> {Node(TRUE, 0), Node(FALSE, 10), Node(FALSE, 20)}] :
                    D \in SUBSET Nodes} :
       /\ IsTree(f)
       /\ \A node \in DOMAIN f : ~f[node].is_dir => f[node].size = FileSize(node)}

Resolve(s) == PathOf(s).parts

NodeName(node) == IF node = <<>> THEN "" ELSE node[Len(node)]

NodeEntry(f, node) == Entry(NodeName(node), f[node].is_dir, f[node].size, "")

Success(data) == Response(200, TRUE, 200, data)
Failure == Response(200, TRUE, 500, <<>>)

IsSuccess(resp) == resp.ok /\ resp.status = 200 /\ resp.json /\ resp.code = 200

\* /api/fs/get
RemoteGet(f, s) ==
    IF Resolve(s) \in DOMAIN f THEN Success(<<NodeEntry(f, Resolve(s))>>) ELSE Failure

HasChild(f, node, n) == Append(node, n) \in DOMAIN f

\* /api/fs/list: the children of a directory, by name
RemoteList(f, s) ==
    LET node == Resolve(s) IN
    IF node \in DOMAIN f /\ f[node].is_dir
    THEN LET names == SelectSeq(NameSeq, LAMBDA n : HasChild(f, node, n)) IN
         Success([k \in 1 .. Len(names) |-> NodeEntry(f, Append(node, names[k]))])
    ELSE Failure

Prefixes(node) == {SubSeq(node, 1, k) : k \in 0 .. Len(node)}

\* /api/fs/mkdir makes the directory and its missing ancestors; it fails
\* when a file is in the way
CanMkdir(f, node) == \A q \in Prefixes(node) : q \in DOMAIN f => f[q].is_dir

Mkdir(f, node) ==
    [q \in DOMAIN f \cup Prefixes(node) |-> IF q \in DOMAIN f THEN f[q] ELSE Node(TRUE, 0)]

RemoteMkdir(f, s) == IF CanMkdir(f, Resolve(s)) THEN Success(<<>>) ELSE Failure

\* fault plans: no fault, one fault at the k-th request, or every request
Faults == {"none", "http", "code"}
NoFault == [at |-> 0, kind |-> "ok", all |-> FALSE]
Plans ==
    {NoFault}
    \cup {[at |-> k, kind |-> x, all |-> FALSE] : k \in 1 .. MaxCall, x \in Faults}
    \cup {[at |-> 0, kind |-> x, all |-> TRUE] : x \in {"none", "code"}}

FaultAt(plan, k) == IF plan.all \/ plan.at = k THEN plan.kind ELSE "ok"

FaultResponse(kind) ==
    IF kind = "none" THEN NoResp
    ELSE IF kind = "http" THEN Response(500, FALSE, 0, <<>>)
    ELSE Failure

\* the world an operation runs in: the remote tree, and the requests sent
\* and responses received so far
World(f) == [fs |-> f, calls |-> <<>>, resps |-> <<>>]

Http(w, plan, call) ==
    LET kind == FaultAt(plan, Len(w.calls) + 1)
        api == call.url[1]
        s == call.body.path
        resp == IF kind # "ok" THEN FaultResponse(kind)
                ELSE IF api = "/api/fs/get" THEN RemoteGet(w.fs, s)
                ELSE IF api = "/api/fs/list" THEN RemoteList(w.fs, s)
                ELSE RemoteMkdir(w.fs, s)
    IN [resp |-> resp,
        w |-> [fs |-> IF api = "/api/fs/mkdir" /\ IsSuccess(resp)
                      THEN Mkdir(w.fs, Resolve(s)) ELSE w.fs,
               calls |-> Append(w.calls, call), resps |-> Append(w.resps, resp)]]

Ran(out, w) == [out |-> out, w |-> w]

list_in(w, plan, fileitem) ==
    LET h == Http(w, plan, list_call(fileitem)) IN Ran(list(fileitem, h.resp), h.w)

get_item_in(w, plan, path) ==
    LET h == Http(w, plan, get_item_call(path)) IN Ran(get_item(path, h.resp), h.w)

\* create_folder (lines 213-241); fileitem.path of None raises
create_folder_in(w, plan, fileitem, name) ==
    IF fileitem.type = "None" THEN Ran(Raised("AttributeError"), w)
    ELSE LET h == Http(w, plan, create_folder_call(fileitem, name))
             made == create_folder_made(h.resp)
         IN IF made.ret = "True"
            THEN get_item_in(h.w, plan, create_folder_path(fileitem, name))
            ELSE Ran(made, h.w)

\* get_folder (lines 247-256) with get_parent (line 343); depth counts the
\* frames of get_folder on the stack
RECURSIVE get_folder(_, _, _, _)
get_folder(w, plan, path, depth) ==
    IF depth > RecursionLimit THEN Ran(Raised("RecursionError"), w)
    ELSE LET folder == get_item_in(w, plan, path) IN
         IF folder.out.ret # "None" THEN folder
         ELSE LET parent == get_folder(folder.w, plan,
                                       PathParent(PathOf(as_posix(path))), depth + 1)
              IN IF parent.out.exc # "none" THEN parent
                 ELSE create_folder_in(parent.w, plan, parent.out.item, PathName(path))

\* files_info[path] = size
DictSet(d, path, size) == {e \in d : e[1] # path} \cup {<<path, size>>}

\* __snapshot_file (lines 695-699): r is the dict so far and the world; the
\* loop over self.list(_fileitm) raises TypeError when list returns None
RECURSIVE snapshot_file(_, _, _), snapshot_files(_, _, _)
snapshot_file(r, plan, fileitm) ==
    IF fileitm.type = "dir"
    THEN LET l == list_in(r.w, plan, fileitm) IN
         IF l.out.exc # "none" THEN Ran(l.out, l.w)
         ELSE IF l.out.ret = "None" THEN Ran(Raised("TypeError"), l.w)
         ELSE snapshot_files(Ran(r.out, l.w), plan, l.out.items)
    ELSE Ran(RetDict(DictSet(r.out.dict, fileitm.path, fileitm.size)), r.w)

snapshot_files(r, plan, items) ==
    IF items = <<>> \/ r.out.exc # "none" THEN r
    ELSE snapshot_files(snapshot_file(r, plan, Head(items)), plan, Tail(items))

\* snapshot (lines 689-707)
snapshot(w, plan, path) ==
    LET fileitem == get_item_in(w, plan, path) IN
    IF fileitem.out.ret # "item" THEN Ran(IF fileitem.out.exc = "none" THEN RetDict({})
                                          ELSE fileitem.out, fileitem.w)
    ELSE snapshot_file(Ran(RetDict({}), fileitem.w), plan, fileitem.out.item)

(***************************************************************************)
(* SpecFs and SpecFolder: the operations against the remote tree.          *)
(***************************************************************************)
FsPaths == {[root |-> "/", parts |-> node] : node \in Nodes \cup {<<>>}}
FsItems == {FileItem("dir", as_posix(path), PathName(path), 0) :
              path \in {q \in FsPaths : Len(q.parts) <= 1}}

After(op, item, arg, r, pre) ==
    [op |-> op, item |-> item, arg |-> arg, resps |-> r.w.resps,
     calls |-> r.w.calls, out |-> r.out, pre |-> pre]

PathArg(path) == Arg("", FALSE, TargetPath(path))

ListDir(item, plan) ==
    \E r \in {list_in(World(fs), plan, item)} :
    /\ fs' = r.w.fs
    /\ last' = After("list", item, NoArg, r, FALSE)
    /\ UNCHANGED authVars

GetItemAt(path, plan) ==
    \E r \in {get_item_in(World(fs), plan, path)} :
    /\ fs' = r.w.fs
    /\ last' = After("get_item", NoneItem, PathArg(path), r, FALSE)
    /\ UNCHANGED authVars

MakeFolder(item, name, plan) ==
    \E r \in {create_folder_in(World(fs), plan, item, name)} :
    /\ fs' = r.w.fs
    /\ last' = After("create_folder", item, Arg(name, FALSE, NoTarget), r, FALSE)
    /\ UNCHANGED authVars

\* pre: the call before this one was a create_folder whose mkdir succeeded
\* on the remote, and path is the path it made
GetFolder(path, plan) ==
    \E r \in {get_folder(World(fs), plan, path, 1)} :
    /\ fs' = r.w.fs
    /\ last' = After("get_folder", NoneItem, PathArg(path), r,
                     /\ last.op = "create_folder" /\ last.resps # <<>>
                     /\ IsSuccess(last.resps[1])
                     /\ path = create_folder_path(last.item, last.arg.name))
    /\ UNCHANGED authVars

Snapshot(path, plan) ==
    \E r \in {snapshot(World(fs), plan, path)} :
    /\ fs' = r.w.fs
    /\ last' = After("snapshot", NoneItem, PathArg(path), r, FALSE)
    /\ UNCHANGED authVars

\* SpecFs: the operations that read the tree
NextFs ==
    \/ \E item \in FsItems, plan \in Plans : ListDir(item, plan)
    \/ \E path \in FsPaths, plan \in Plans : GetItemAt(path, plan)
    \/ \E path \in FsPaths, plan \in Plans : Snapshot(path, plan)

\* SpecFolder: the operations that make directories
NextFolder ==
    \/ \E item \in FsItems, name \in Names, plan \in Plans : MakeFolder(item, name, plan)
    \/ \E path \in FsPaths, plan \in Plans : GetFolder(path, plan)

(***************************************************************************)
(* Specifications.  No adapter is constructed, no token cached and no      *)
(* request sent at the start; SpecAuth draws the configured token.         *)
(***************************************************************************)
NoInst == [i \in Inst |-> [state |-> "new", hdr |-> ""]]
NoLogin == [i \in Inst |-> -1]

InitAuth ==
    /\ now = 0 /\ ticks = 0 /\ cache = EmptyCache /\ inst = NoInst
    /\ lastLogin = NoLogin /\ prevLogin = NoLogin /\ evt = NoEvt
    /\ last = NoLast /\ fs = <<>>
    /\ conf \in ConfTokens

InitOps ==
    /\ now = 0 /\ ticks = 0 /\ cache = EmptyCache /\ inst = NoInst
    /\ lastLogin = NoLogin /\ prevLogin = NoLogin /\ evt = NoEvt
    /\ conf = "" /\ fs = <<>>
    /\ last = NoLast

SpecAuth == InitAuth /\ [][NextAuth]_vars

SpecOps == InitOps /\ [][NextOps]_vars

InitFs ==
    /\ now = 0 /\ ticks = 0 /\ cache = EmptyCache /\ inst = NoInst
    /\ lastLogin = NoLogin /\ prevLogin = NoLogin /\ evt = NoEvt
    /\ conf = "" /\ last = NoLast
    /\ fs \in Trees

SpecFs == InitFs /\ [][NextFs]_vars

SpecFolder == InitFs /\ [][NextFolder]_vars

(***************************************************************************)
(* Properties of SpecAuth.                                                 *)
(***************************************************************************)

\* C1: an instance without a permanent token never obtains two tokens by
\* login within one time-to-live of the first (two currentToken() calls in
\* the TTL of the first issue at most one login request, whatever other
\* instances do), and a call that finds no live entry issues exactly one
\* login request, a call that finds one issues none.
C1_OneLoginPerTTL ==
    /\ \A i \in Inst :
          prevLogin[i] >= 0 => lastLogin[i] >= prevLogin[i] + TTL
    /\ (evt.kind # "none" /\ evt.op \in {"", "upload"} /\ conf = "")
          => evt.login = (IF evt.hit THEN 0 ELSE 1)

\* C2: every authenticated request carries the token __get_valuable_toke
\* holds for the instance at that moment (the permanent token or the live
\* cache entry): no request carries a token that has been replaced.
C2_HeaderIsCurrentToken ==
    (evt.kind = "request" /\ evt.view # "") => evt.auth = evt.view

\* C10: a login answered with a parsed envelope whose code is not 200, or
\* with a status that is not 200, still returns a token: no exception
\* reaches the caller of __init__ or of the operation.
C10_FailedLoginStillReturns ==
    (evt.login = 1 /\ evt.resp.ok /\ evt.resp.json
       /\ (evt.resp.code # 200 \/ evt.resp.status # 200))
      => evt.exc = "none"

(***************************************************************************)
(* Properties of SpecOps.                                                  *)
(***************************************************************************)
NoResult(out) == out.exc = "none" /\ out.ret \in {"None", "False"}

\* C3: an operation one of whose HTTP calls got no response returns None
\* or False and raises nothing.
C3_NoResponseNeverRaises ==
    (last.op # "none" /\ \E k \in 1 .. Len(last.resps) : ~last.resps[k].ok)
      => NoResult(last.out)

\* C4: an operation one of whose HTTP calls was answered with status 200
\* and an envelope whose code is not 200 returns None or False: no success
\* value, no exception.
C4_EnvelopeFailureNoResult ==
    (last.op # "none"
       /\ \E k \in 1 .. Len(last.resps) :
             /\ last.resps[k].ok /\ last.resps[k].status = 200
             /\ last.resps[k].json /\ last.resps[k].code # 200)
      => NoResult(last.out)

LastNode == last.arg.target.path.parts

AllAnswered == \A k \in 1 .. Len(last.resps) : IsSuccess(last.resps[k])

\* the files of tree f at or below node
FilesUnder(f, node) ==
    {q \in DOMAIN f : /\ ~f[q].is_dir
                      /\ Len(q) >= Len(node)
                      /\ SubSeq(q, 1, Len(node)) = node}

FullPath(node) == as_posix([root |-> "/", parts |-> node])

\* C6: when the path is in the tree and every request succeeds, snapshot
\* returns exactly the pairs (full path, size) of the files at or below the
\* path, and no directory.
C6_SnapshotFullPaths ==
    (last.op = "snapshot" /\ LastNode \in DOMAIN fs /\ AllAnswered)
      => /\ last.out.exc = "none" /\ last.out.ret = "dict"
         /\ last.out.dict = {<<FullPath(q), fs[q].size>> : q \in FilesUnder(fs, LastNode)}

\* C8: list of an existing empty directory returns the empty list; list of a
\* directory the remote refuses (a status that is not 200, or an envelope
\* whose code is not 200, as for a directory that does not exist) returns
\* None; and list returns the empty list only for a request that succeeded.
C8_EmptyIsNotMissing ==
    (last.op = "list" /\ Len(last.resps) = 1) =>
      LET resp == last.resps[1]
          node == Resolve(last.item.path)
          empty == /\ node \in DOMAIN fs /\ fs[node].is_dir
                   /\ \A n \in Names : ~HasChild(fs, node, n)
      IN /\ (empty /\ IsSuccess(resp)) => last.out = RetList(<<>>)
         /\ (resp.ok /\ (resp.status # 200 \/ (resp.json /\ resp.code # 200)))
               => last.out = RetNone
         /\ (node \notin DOMAIN fs /\ resp.ok) => last.out = RetNone
         /\ (last.out.ret = "list" /\ last.out.items = <<>>)
               => (IsSuccess(resp) /\ empty)

\* an existing empty directory was listed: the empty list
C8_Witness ==
    /\ last.op = "list" /\ last.out = RetList(<<>>)
    /\ Resolve(last.item.path) \in DOMAIN fs /\ IsSuccess(last.resps[1])

\* C9: snapshot raises nothing: it returns a mapping, the empty one when
\* get_item does not resolve the path, and still a mapping when a list of a
\* directory of the traversal fails.
C9_SnapshotNeverRaises ==
    last.op = "snapshot" =>
      /\ last.out.exc = "none" /\ last.out.ret = "dict"
      /\ ~IsSuccess(last.resps[1]) => last.out.dict = {}

(***************************************************************************)
(* Properties of SpecFolder.                                               *)
(***************************************************************************)
\* what C7 says of a get_folder that follows a create_folder of the same
\* path whose mkdir succeeded on the remote
FolderReturned ==
    /\ last.out.exc = "none" /\ last.out.ret = "item"
    /\ last.out.item.path = as_posix(last.arg.target.path)
    /\ last.out.item.type = "dir"
    /\ \A k \in 1 .. Len(last.calls) : last.calls[k].url # <<"/api/fs/mkdir">>

C11_GetFolderTerminates ==
    last.op = "get_folder" => last.out.exc # "RecursionError"

====
